---- MODULE Spec2Model ----
(***************************************************************************)
(* Model of the prover of a snarkOS node (src/src/network/prover.rs):      *)
(* the handler loop that applies ProverRequests to the memory pool, the    *)
(* miner loop that starts mining jobs behind the status gate, and the      *)
(* completion task of each job.  The node's Status, the terminator, the    *)
(* ledger and the peers/ledger routers are shared with the rest of the     *)
(* node and are driven here by environment actions.                        *)
(***************************************************************************)
EXTENDS Integers, Sequences, FiniteSets, TLC

\* ---------------------------------------------------------------- bounds
MaxRequests == 3      \* requests the rest of the node submits in one run
MaxJobs == 2          \* mining jobs the miner loop starts in one run
ModelCapacity == 2    \* slots of the prover's channel kept in the model
RouterCapacity == 1   \* slots of the peers router's and the ledger router's channels

\* ------------------------------------------------------ program constants
ChannelCapacity == 1024   \* mpsc::channel(1024)

Tx == {1, 2}              \* transaction identifiers
Peer == {1, 2}            \* peer addresses
Blocks == {{1}, {1, 2}}   \* transaction sets of the blocks that get confirmed
State == {"Ready", "Mining", "Peering"}

Min(a, b) == IF a < b THEN a ELSE b
Capacity == Min(ChannelCapacity, ModelCapacity)

VARIABLES
    status,          \* Prover.status (shared with the node)
    terminator,      \* Prover.terminator (shared with the node)
    memory_pool,     \* Prover.memory_pool: the identifiers of the pooled transactions
    write_guard,     \* TRUE while the handler holds memory_pool's write lock across an await
    prover_handler,  \* the requests queued in the prover's mpsc channel
    submitted,       \* number of requests submitted so far
    waiting,         \* the requests of the senders suspended on the full channel
    dequeued,        \* number of requests the handler loop has received so far
    request,         \* the request the handler loop dequeued last
    handler_pc,      \* "recv": awaiting a request; "send": awaiting peers_router.send
    contains,        \* result of contains_transaction for `request` ("none": not called)
    added,           \* result of add_transaction for `request` ("none": not called)
    admissions,      \* per transaction, the number of successful add_transaction calls
    propagations,    \* per transaction, the number of peers_router.send calls
    removals,        \* per transaction, the number of times a clear took it out of the pool
    peers_request,   \* the PeersRequest built last by add_unconfirmed_transaction
    sent,            \* result of the last peers_router.send ("none": still awaited)
    peers_router,    \* the PeersRequests queued in the peers router's channel
    peers_open,      \* FALSE once the peers router's receiver is gone
    miner,           \* TRUE iff NODE_TYPE is Miner and a recipient address is given
    miner_pc,        \* position of the miner loop
    seen_terminator, \* what terminator.load() returned in this iteration ("none": not loaded)
    seen_status,     \* the Status that is_ready() saw in this iteration ("none": not called)
    jobs,            \* the mining jobs spawned by the miner loop
    ledger_router,   \* the LedgerRequests queued in the ledger router's channel
    ledger_open      \* FALSE once the ledger router's receiver is gone

vars == <<status, terminator, memory_pool, write_guard, prover_handler, submitted,
          waiting, dequeued, sent, request, handler_pc, contains, added, admissions, propagations, removals,
          peers_request, peers_router, peers_open, miner, miner_pc, seen_terminator,
          seen_status, jobs, ledger_router, ledger_open>>

handler_vars == <<memory_pool, write_guard, prover_handler, request, handler_pc,
                  contains, added, admissions, propagations, removals, peers_request,
                  peers_router, waiting, dequeued, sent>>
miner_vars == <<miner_pc, seen_terminator, seen_status, jobs, ledger_router>>

\* ------------------------------------------------------------ ProverRequest
NoRequest == [kind |-> "None", some |-> FALSE, block |-> {}, peer |-> 0, tx |-> 0]
MemoryPoolClear(some, block) ==
    [kind |-> "MemoryPoolClear", some |-> some, block |-> block, peer |-> 0, tx |-> 0]
UnconfirmedTransaction(peer_ip, transaction) ==
    [kind |-> "UnconfirmedTransaction", some |-> FALSE, block |-> {},
     peer |-> peer_ip, tx |-> transaction]
ProverRequest ==
    {MemoryPoolClear(FALSE, {})}
        \cup {MemoryPoolClear(TRUE, b) : b \in Blocks}
        \cup {UnconfirmedTransaction(p, t) : p \in Peer, t \in Tx}

\* --------------------------------------------------------------- MemoryPool
MemoryPoolNew == {}
\* add_transaction: Err when the transaction is already pooled or when the pool's
\* own validity rules (`valid`) reject it.
AddTransactionResult(pool, transaction, valid) ==
    IF transaction \in pool \/ ~valid THEN "Err" ELSE "Ok"
AddTransaction(pool, transaction, valid) ==
    IF AddTransactionResult(pool, transaction, valid) = "Ok"
    THEN pool \cup {transaction} ELSE pool
RemoveTransactions(pool, transactions) == pool \ transactions
Transactions(pool) == pool

\* ------------------------------------------------------------------ Status
IsReady(s) == s = "Ready"
IsPeering(s) == s = "Peering"

\* ----------------------------------------------------------- PeersRequest
NoPeersRequest == [exclude |-> 0, tx |-> 0]
MessagePropagate(peer_ip, transaction) == [exclude |-> peer_ip, tx |-> transaction]

\* ------------------------------------------------------- LedgerReader
\* contains_transaction returns Ok(true), Ok(false) or Err.
ContainsResult == {"Ok_true", "Ok_false", "Err"}
IsNewUnlessConfirmed(result) == result # "Ok_true"
\* `if let Ok(false) = ...contains_transaction(...)`
IsNew(result) == result = "Ok_false"

\* ------------------------------------------ Prover::add_unconfirmed_transaction
\* Runs up to the await of peers_router.send.  The write guard is a temporary of
\* the match scrutinee, so it lives until the end of the match: it is still held
\* while the Ok arm awaits the send.
PropagatesAlways(r) == TRUE
PropagatesNever(r) == FALSE
\* The arm of `match ... add_transaction(&transaction)` that propagates.
Propagates(r) == r = "Ok"

AddUnconfirmedTransaction(peer_ip, transaction, result, valid) ==
    /\ contains' = result
    /\ UNCHANGED removals
    /\ IF IsNew(result)
       THEN LET r == AddTransactionResult(memory_pool, transaction, valid) IN
            /\ added' = r
            /\ memory_pool' = AddTransaction(memory_pool, transaction, valid)
            /\ admissions' = IF r = "Ok"
                             THEN [admissions EXCEPT ![transaction] = @ + 1]
                             ELSE admissions
            /\ IF Propagates(r)
               THEN /\ peers_request' = MessagePropagate(peer_ip, transaction)
                    /\ propagations' = [propagations EXCEPT ![transaction] = @ + 1]
                    /\ handler_pc' = "send"
                    /\ write_guard' = TRUE
               ELSE /\ peers_request' = NoPeersRequest
                    /\ UNCHANGED <<propagations, handler_pc, write_guard>>
       ELSE /\ added' = "none"
            /\ peers_request' = NoPeersRequest
            /\ UNCHANGED <<memory_pool, admissions, propagations, handler_pc, write_guard>>

\* ------------------------------------------------------------ Prover::update
ClearPoolIncremental(pool, req) == RemoveTransactions(pool, req.block)
ClearPoolAll(pool, req) == MemoryPoolNew
ClearPool(pool, req) ==
    IF req.some THEN RemoveTransactions(pool, req.block) ELSE MemoryPoolNew

ProcessesAlways(req, s) == req.kind = "UnconfirmedTransaction"
Processes(req, s) == req.kind = "UnconfirmedTransaction" /\ ~IsPeering(s)

Update(req, result, valid) ==
    IF req.kind = "MemoryPoolClear"
    THEN /\ memory_pool' = ClearPool(memory_pool, req)
         /\ removals' = [t \in Tx |->
                IF t \in memory_pool \ ClearPool(memory_pool, req)
                THEN removals[t] + 1 ELSE removals[t]]
         /\ contains' = "none" /\ added' = "none" /\ peers_request' = NoPeersRequest
         /\ UNCHANGED <<admissions, propagations, handler_pc, write_guard>>
    ELSE IF Processes(req, status)
    THEN AddUnconfirmedTransaction(req.peer, req.tx, result, valid)
    ELSE /\ contains' = "none" /\ added' = "none" /\ peers_request' = NoPeersRequest
         /\ UNCHANGED <<memory_pool, admissions, propagations, removals, handler_pc,
                        write_guard>>

\* ------------------------------------------------- the handler loop of new()
\* prover_handler.recv() yields the oldest request, and update() runs on it up to
\* its first await that can suspend.
HandlerIdleAlways(pc) == TRUE
\* `prover.update(request).await`: the loop receives again only once update is over.
HandlerIdle(pc) == pc = "recv"

LoopingOnce(req) == req.kind = "None"
\* `while let Some(request) = prover_handler.recv().await`: the loop goes on after
\* each request (the prover keeps a sender of its own, so recv never yields None).
Looping(req) == TRUE

ReadGuardHeldWhileMining == \E j \in 1..MaxJobs : jobs[j].pc = "mining"
\* The read guard of `prover.memory_pool.read().await.transactions()` is a temporary
\* of that statement: no read guard outlives the snapshot.
ReadGuardHeld == FALSE

\* update() takes the write lock for every request but one it drops unprocessed.
NeedsWriteLock(req, s) == req.kind = "MemoryPoolClear" \/ Processes(req, s)

HandlerRecv ==
    /\ HandlerIdle(handler_pc)
    /\ Looping(request)
    /\ prover_handler # <<>>
    /\ NeedsWriteLock(Head(prover_handler), status) => ~ReadGuardHeld
    /\ request' = Head(prover_handler)
    /\ prover_handler' = Tail(prover_handler)
    /\ dequeued' = dequeued + 1
    /\ sent' = "none"
    /\ \E result \in ContainsResult, valid \in BOOLEAN :
            Update(Head(prover_handler), result, valid)
    /\ UNCHANGED <<status, terminator, submitted, waiting, peers_router, peers_open,
                   miner>>
    /\ UNCHANGED <<miner_vars, ledger_open>>

\* peers_router.send(request).await completes: Ok once the channel has room, Err
\* when the receiver is gone.  The match ends and the write guard is dropped.
PoolAfterSendRollback(pool, transaction, result) ==
    IF result = "Err" THEN pool \ {transaction} ELSE pool
\* `if let Err(error) = ... { warn!(...) }`: the pool is left as add_transaction made it.
PoolAfterSend(pool, transaction, result) == pool

HandlerSend ==
    /\ handler_pc = "send"
    /\ \/ /\ peers_open
          /\ Len(peers_router) < RouterCapacity
          /\ peers_router' = Append(peers_router, peers_request)
          /\ sent' = "Ok"
       \/ /\ ~peers_open
          /\ UNCHANGED peers_router
          /\ sent' = "Err"
    /\ memory_pool' = PoolAfterSend(memory_pool, request.tx, sent')
    /\ handler_pc' = "recv"
    /\ write_guard' = FALSE
    /\ UNCHANGED <<status, terminator, prover_handler, submitted, waiting, dequeued,
                   request, contains, added, admissions, propagations, removals,
                   peers_request, peers_open, miner>>
    /\ UNCHANGED <<miner_vars, ledger_open>>

\* ----------------------------------------------------- the rest of the node
\* prover_router.send(request).await is called: the request is queued when the
\* channel has room and no earlier sender waits, else the sender is suspended.
Submit ==
    /\ submitted < MaxRequests
    /\ \E req \in ProverRequest :
            IF Len(prover_handler) < Capacity /\ waiting = <<>>
            THEN /\ prover_handler' = Append(prover_handler, req)
                 /\ UNCHANGED waiting
            ELSE /\ waiting' = Append(waiting, req)
                 /\ UNCHANGED prover_handler
    /\ submitted' = submitted + 1
    /\ UNCHANGED <<status, terminator, memory_pool, write_guard, request, handler_pc,
                   dequeued, sent, contains, added, admissions, propagations, removals,
                   peers_request, peers_router, peers_open, miner>>
    /\ UNCHANGED <<miner_vars, ledger_open>>

\* The channel has room again: the sender suspended first resumes and its request
\* is queued.
SubmitResume ==
    /\ waiting # <<>>
    /\ Len(prover_handler) < Capacity
    /\ prover_handler' = Append(prover_handler, Head(waiting))
    /\ waiting' = Tail(waiting)
    /\ UNCHANGED <<status, terminator, memory_pool, write_guard, request, handler_pc,
                   submitted, dequeued, sent, contains, added, admissions, propagations,
                   removals, peers_request, peers_router, peers_open, miner>>
    /\ UNCHANGED <<miner_vars, ledger_open>>

\* Another component of the node updates the shared Status.
StatusUpdate ==
    /\ \E s \in State \ {status} : status' = s
    /\ UNCHANGED <<terminator, submitted, peers_open, miner, ledger_open>>
    /\ UNCHANGED <<handler_vars, miner_vars>>

\* The node sets or resets the terminator.
TerminatorStore ==
    /\ terminator' = ~terminator
    /\ UNCHANGED <<status, submitted, peers_open, miner, ledger_open>>
    /\ UNCHANGED <<handler_vars, miner_vars>>

\* The peers router takes the next request off its channel.
PeersRecv ==
    /\ peers_open
    /\ peers_router # <<>>
    /\ peers_router' = Tail(peers_router)
    /\ UNCHANGED <<status, terminator, memory_pool, write_guard, prover_handler,
                   submitted, waiting, dequeued, sent, request, handler_pc, contains,
                   added, admissions, propagations, removals, peers_request, peers_open,
                   miner>>
    /\ UNCHANGED <<miner_vars, ledger_open>>

\* The peers router's receiver is dropped; what it had queued is dropped with it.
PeersClose ==
    /\ peers_open
    /\ peers_open' = FALSE
    /\ peers_router' = <<>>
    /\ UNCHANGED <<status, terminator, memory_pool, write_guard, prover_handler,
                   submitted, waiting, dequeued, sent, request, handler_pc, contains,
                   added, admissions, propagations, removals, peers_request, miner>>
    /\ UNCHANGED <<miner_vars, ledger_open>>

\* The ledger router takes the next request off its channel.
LedgerRecv ==
    /\ ledger_open
    /\ ledger_router # <<>>
    /\ ledger_router' = Tail(ledger_router)
    /\ UNCHANGED <<status, terminator, submitted, peers_open, miner, miner_pc,
                   seen_terminator, seen_status, jobs, ledger_open>>
    /\ UNCHANGED handler_vars

\* The ledger router's receiver is dropped; what it had queued is dropped with it.
LedgerClose ==
    /\ ledger_open
    /\ ledger_open' = FALSE
    /\ ledger_router' = <<>>
    /\ UNCHANGED <<status, terminator, submitted, peers_open, miner, miner_pc,
                   seen_terminator, seen_status, jobs>>
    /\ UNCHANGED handler_vars

\* ---------------------------------------------------- the miner loop of new()
JobIds == 1..MaxJobs
\* `sends` counts the calls of ledger_router.send that the task of the job has made.
IdleJob == [pc |-> "idle", result |-> "none", txs |-> {}, sends |-> 0]
\* mine_next_block returns a block or an error, or the blocking task itself fails.
MiningResult == {"Ok_block", "Ok_err", "Err"}
InFlight(j) == jobs[j].pc = "mining"
FreeJobs == {j \in JobIds : jobs[j].pc = "idle"}
NextJob == CHOOSE j \in FreeJobs : \A k \in FreeJobs : j <= k

\* LedgerRequest::UnconfirmedBlock(local_ip, block, prover_router)
UnconfirmedBlock(origin, block, router) ==
    [origin |-> origin, block |-> block, router |-> router]
LocalIp == "local_ip"
ProverRouter == "prover_router"

GateTerminatorIgnored(t) == TRUE
\* `!prover.terminator.load(Ordering::SeqCst)`
GateTerminator(t) == ~t
GateStatusNever(s) == FALSE
GateStatusNotPeering(s) == ~IsPeering(s)
\* `&& prover.status.is_ready()`
GateStatus(s) == IsReady(s)

MinerConfiguredAlways(m) == TRUE
\* `if E::NODE_TYPE == NodeType::Miner { if let Some(recipient) = miner {`: the
\* task of the miner loop is spawned only then.
MinerConfigured(m) == m

MinerLoadTerminator ==
    /\ MinerConfigured(miner)
    /\ miner_pc = "load_terminator"
    /\ FreeJobs # {}
    /\ seen_terminator' = IF terminator THEN "true" ELSE "false"
    /\ miner_pc' = IF GateTerminator(terminator) THEN "is_ready" ELSE "sleep"
    /\ UNCHANGED <<seen_status, status, terminator, submitted, peers_open, miner, jobs,
                   ledger_router, ledger_open>>
    /\ UNCHANGED handler_vars

MinerIsReady ==
    /\ miner_pc = "is_ready"
    /\ seen_status' = status
    /\ miner_pc' = IF GateStatus(status) THEN "update_mining" ELSE "sleep"
    /\ UNCHANGED <<seen_terminator, status, terminator, submitted, peers_open, miner, jobs,
                   ledger_router, ledger_open>>
    /\ UNCHANGED handler_vars

\* prover.status.update(State::Mining)
MinerUpdateMining ==
    /\ miner_pc = "update_mining"
    /\ status' = "Mining"
    /\ miner_pc' = "snapshot"
    /\ UNCHANGED <<seen_terminator, seen_status, terminator, submitted, peers_open, miner, jobs, ledger_router,
                   ledger_open>>
    /\ UNCHANGED handler_vars

\* prover.memory_pool.read().await.transactions(), then task::spawn of the job.
\* The read lock is granted only while no write guard is held.
MinerSpawn ==
    /\ miner_pc = "snapshot"
    /\ ~write_guard
    /\ jobs' = [jobs EXCEPT ![NextJob] =
                    [pc |-> "mining", result |-> "none", txs |-> Transactions(memory_pool),
                     sends |-> 0]]
    /\ miner_pc' = "sleep"
    /\ UNCHANGED <<seen_terminator, seen_status, status, terminator, submitted,
                   peers_open, miner, ledger_router, ledger_open>>
    /\ UNCHANGED handler_vars

\* tokio::time::sleep(2 s) elapses and the loop starts over.
MinerSleep ==
    /\ miner_pc = "sleep"
    /\ miner_pc' = "load_terminator"
    /\ seen_terminator' = "none"
    /\ seen_status' = "none"
    /\ UNCHANGED <<status, terminator, submitted, peers_open, miner, jobs,
                   ledger_router, ledger_open>>
    /\ UNCHANGED handler_vars

\* ------------------------------------------------ the task of one mining job
\* task::spawn_blocking(...).await returns with the outcome of the mining.
JobSettle(j) ==
    /\ jobs[j].pc = "mining"
    /\ \E result \in MiningResult :
            jobs' = [jobs EXCEPT ![j].pc = "settled", ![j].result = result]
    /\ UNCHANGED <<status, terminator, submitted, peers_open, miner, miner_pc,
                   seen_terminator, seen_status, ledger_router, ledger_open>>
    /\ UNCHANGED handler_vars

AfterReadyAlwaysSend(result) == "send"
\* What the task does after status.update(State::Ready), by the result of the job.
AfterReady(result) == IF result = "Ok_block" THEN "send" ELSE "done"

StatusAfterJobDeferred(result, s) == IF result = "Ok_block" THEN s ELSE "Ready"
StatusAfterJobOkOnly(result, s) == IF result = "Ok_block" THEN "Ready" ELSE s
\* status.update(State::Ready), whatever the result of the job
StatusAfterJob(result, s) == "Ready"

JobSetReady(j) ==
    /\ jobs[j].pc = "settled"
    /\ status' = StatusAfterJob(jobs[j].result, status)
    /\ jobs' = [jobs EXCEPT ![j].pc = AfterReady(jobs[j].result)]
    /\ UNCHANGED <<terminator, submitted, peers_open, miner, miner_pc, seen_terminator,
                   seen_status, ledger_router, ledger_open>>
    /\ UNCHANGED handler_vars

\* ledger_router.send(request).await completes: Ok once the channel has room, Err
\* when the receiver is gone.
JobSend(j) ==
    /\ jobs[j].pc = "send"
    /\ \/ /\ ledger_open
          /\ Len(ledger_router) < RouterCapacity
          /\ ledger_router' = Append(ledger_router, UnconfirmedBlock(LocalIp, j, ProverRouter))
       \/ /\ ~ledger_open
          /\ UNCHANGED ledger_router
    /\ jobs' = [jobs EXCEPT ![j].pc = "done", ![j].sends = @ + 1]
    /\ UNCHANGED <<status, terminator, submitted, peers_open, miner, miner_pc,
                   seen_terminator, seen_status, ledger_open>>
    /\ UNCHANGED handler_vars

\* ------------------------------------------------------------ specification
Init ==
    /\ status \in State
    /\ terminator = FALSE
    /\ memory_pool = MemoryPoolNew
    /\ write_guard = FALSE
    /\ prover_handler = <<>>
    /\ submitted = 0
    /\ waiting = <<>>
    /\ dequeued = 0
    /\ sent = "none"
    /\ request = NoRequest
    /\ handler_pc = "recv"
    /\ contains = "none"
    /\ added = "none"
    /\ admissions = [t \in Tx |-> 0]
    /\ propagations = [t \in Tx |-> 0]
    /\ removals = [t \in Tx |-> 0]
    /\ peers_request = NoPeersRequest
    /\ peers_router = <<>>
    /\ peers_open = TRUE
    /\ miner \in BOOLEAN
    /\ miner_pc = "load_terminator"
    /\ seen_terminator = "none"
    /\ seen_status = "none"
    /\ jobs = [j \in JobIds |-> IdleJob]
    /\ ledger_router = <<>>
    /\ ledger_open = TRUE

Next ==
    \/ Submit
    \/ SubmitResume
    \/ HandlerRecv
    \/ HandlerSend
    \/ StatusUpdate
    \/ TerminatorStore
    \/ PeersRecv
    \/ PeersClose
    \/ LedgerRecv
    \/ LedgerClose
    \/ MinerLoadTerminator
    \/ MinerIsReady
    \/ MinerUpdateMining
    \/ MinerSpawn
    \/ MinerSleep
    \/ \E j \in JobIds : JobSettle(j)
    \/ \E j \in JobIds : JobSetReady(j)
    \/ \E j \in JobIds : JobSend(j)

Spec == Init /\ [][Next]_vars

\* A node that does not mine: only the handler loop runs.
InitHandler == Init /\ ~miner
NextHandler ==
    \/ Submit
    \/ SubmitResume
    \/ HandlerRecv
    \/ HandlerSend
    \/ StatusUpdate
    \/ PeersRecv
    \/ PeersClose
SpecHandler == InitHandler /\ [][NextHandler]_vars

\* A mining node to which no request is submitted: the miner loop and its jobs.
InitMiner == Init /\ miner
NextMiner ==
    \/ StatusUpdate
    \/ TerminatorStore
    \/ LedgerRecv
    \/ LedgerClose
    \/ MinerLoadTerminator
    \/ MinerIsReady
    \/ MinerUpdateMining
    \/ MinerSpawn
    \/ MinerSleep
    \/ \E j \in JobIds : JobSettle(j)
    \/ \E j \in JobIds : JobSetReady(j)
    \/ \E j \in JobIds : JobSend(j)
SpecMiner == InitMiner /\ [][NextMiner]_vars

\* A whole node, mining or not: the handler loop, the miner loop and its jobs run
\* side by side, with no more requests than the channel holds, so that no sender
\* is suspended (all from one peer; the clears are of everything or of the larger
\* block), and with receivers that stay.
NodeRequests == Capacity
NodeRequest ==
    {MemoryPoolClear(FALSE, {}), MemoryPoolClear(TRUE, {1, 2})}
        \cup {UnconfirmedTransaction(1, t) : t \in Tx}
InitNode == Init
NextNode ==
    \/ /\ Submit
       /\ submitted < NodeRequests
       /\ \A i \in DOMAIN prover_handler' : prover_handler'[i] \in NodeRequest
    \/ HandlerRecv
    \/ HandlerSend
    \/ StatusUpdate
    \/ TerminatorStore
    \/ PeersRecv
    \/ LedgerRecv
    \/ MinerLoadTerminator
    \/ MinerIsReady
    \/ MinerUpdateMining
    \/ MinerSpawn
    \/ MinerSleep
    \/ \E j \in JobIds : JobSettle(j)
    \/ \E j \in JobIds : JobSetReady(j)
    \/ \E j \in JobIds : JobSend(j)
SpecNode == InitNode /\ [][NextNode]_vars

\* The miner loop runs on, the lock on the pool is granted once it is free, the
\* handler's send completes once the peers router, which keeps receiving, has room.
FairSpecNode ==
    /\ SpecNode
    /\ WF_vars(MinerIsReady) /\ WF_vars(MinerUpdateMining) /\ WF_vars(MinerSpawn)
    /\ WF_vars(HandlerSend) /\ WF_vars(PeersRecv)

\* Mining jobs complete: the blocking task returns, and the task of a job runs on.
FairSpecMiner ==
    SpecMiner /\ \A j \in JobIds : WF_vars(JobSettle(j)) /\ WF_vars(JobSetReady(j))

\* ================================================================== claims
\* A step of the miner loop that starts a mining job.
JobStarted == \E j \in JobIds : jobs[j].pc = "idle" /\ jobs'[j].pc = "mining"

\* C1: in every reachable state at most one mining job is in flight (started by
\* the miner loop and not yet settled), while other components of the node may
\* update Status too.
C1_OneJobInFlight == Cardinality({j \in JobIds : InFlight(j)}) <= 1

\* C2: an iteration of the miner loop in which is_ready() does not see Ready starts
\* no mining job, whatever terminator.load() returned: a job is started only by an
\* iteration whose is_ready() saw Ready, and an is_ready() that sees another Status
\* sends the loop to its sleep with nothing changed.
C2_NoJobUnlessReady ==
    [][/\ JobStarted => seen_status = "Ready"
       /\ (miner_pc = "is_ready" /\ miner_pc' # "is_ready" /\ ~IsReady(status))
            => (miner_pc' = "sleep" /\ jobs' = jobs /\ status' = status)]_vars
C2_Witness ==
    /\ miner_pc = "sleep"
    /\ seen_status \in {"Mining", "Peering"}
    /\ \A j \in JobIds : jobs[j].pc = "idle"

\* C3: an iteration of the miner loop that loads the terminator while it is true
\* starts no mining job, also when Status is Ready: a job is started only by an
\* iteration whose load returned false, and a load that returns true sends the
\* loop to its sleep with nothing changed.
C3_NoJobWhileTerminated ==
    [][/\ JobStarted => seen_terminator = "false"
       /\ (miner_pc = "load_terminator" /\ miner_pc' # "load_terminator" /\ terminator)
            => (miner_pc' = "sleep" /\ jobs' = jobs /\ status' = status)]_vars
C3_Witness ==
    /\ miner_pc = "sleep"
    /\ seen_terminator = "true"
    /\ terminator
    /\ IsReady(status)
    /\ \A j \in JobIds : ~InFlight(j)

\* C4: the task of a job that has settled, with any of the three results, sets
\* Status to Ready in its next step; and, when mining completes, every job that
\* was started gets to that step.
C4_ReadyAfterJob ==
    /\ [][\A j \in JobIds :
            (jobs[j].pc = "settled" /\ jobs'[j].pc # "settled") => status' = "Ready"]_vars
    /\ \A j \in JobIds : InFlight(j) ~> (jobs[j].pc \in {"send", "done"})
C4_Witness ==
    /\ jobs[1].pc = "done" /\ jobs[1].result = "Ok_err"
    /\ jobs[2].pc = "done" /\ jobs[2].result = "Err"
    /\ IsReady(status)

\* A step of the handler loop that dequeues `req` and applies it.
Applied(req) ==
    /\ prover_handler # <<>>
    /\ Head(prover_handler) = req
    /\ prover_handler' = Tail(prover_handler)

\* C5 (as claimed): whatever requests are applied, a transaction is admitted into
\* the pool at most once and at most one propagation request is sent for it.
C5_AtMostOnce ==
    \A t \in Tx : admissions[t] <= 1 /\ propagations[t] <= 1

\* C5 (amended): a transaction is admitted, and a propagation request sent for
\* it, at most once more than the number of times a MemoryPoolClear has taken it
\* out of the pool; so at most once when no clear removes it between submissions.
C5_AtMostOncePerRemoval ==
    \A t \in Tx : /\ admissions[t] <= removals[t] + 1
                  /\ propagations[t] <= removals[t] + 1
C5_Witness ==
    /\ request = UnconfirmedTransaction(2, 1)
    /\ contains = "Ok_false"
    /\ added = "Err"
    /\ 1 \in memory_pool
    /\ admissions[1] = 1 /\ propagations[1] = 1 /\ removals[1] = 0

\* C6: UnconfirmedTransaction(peer, tx) applied while Status is not Peering, with
\* the ledger answering Ok(false), tx not pooled and add_transaction accepting it,
\* adds tx to the pool and sends exactly one propagation request, which names
\* peer as the peer to exclude and carries tx.
C6_AdmitAndPropagate ==
    [][\A p \in Peer, t \in Tx :
        (/\ Applied(UnconfirmedTransaction(p, t))
         /\ ~IsPeering(status)
         /\ contains' = "Ok_false"
         /\ t \notin memory_pool
         /\ added' = "Ok")
        => (/\ memory_pool' = memory_pool \cup {t}
            /\ propagations' = [propagations EXCEPT ![t] = @ + 1]
            /\ peers_request' = MessagePropagate(p, t)
            /\ handler_pc' = "send")]_vars
C6_Witness ==
    /\ request = UnconfirmedTransaction(2, 1)
    /\ contains = "Ok_false"
    /\ added = "Ok"
    /\ memory_pool = {1}
    /\ propagations = [t \in Tx |-> IF t = 1 THEN 1 ELSE 0]
    /\ peers_request = MessagePropagate(2, 1)
    /\ handler_pc = "send"

\* C7: a transaction is admitted only when contains_transaction returns
\* Ok(false); when it returns Ok(true) or Err, the pool is unchanged, nothing is
\* propagated, and the handler loop goes on to await its next request.
C7_OnlyExplicitFalseAdmits ==
    [][\A p \in Peer, t \in Tx :
        Applied(UnconfirmedTransaction(p, t))
        => /\ (memory_pool' # memory_pool \/ admissions' # admissions
                    \/ propagations' # propagations)
                => contains' = "Ok_false"
           /\ contains' \in {"Ok_true", "Err"}
                => (/\ memory_pool' = memory_pool
                    /\ admissions' = admissions
                    /\ propagations' = propagations
                    /\ peers_request' = NoPeersRequest
                    /\ handler_pc' = "recv")]_vars
C7_Witness ==
    /\ request.kind = "UnconfirmedTransaction"
    /\ contains = "Err"
    /\ ~IsPeering(status)
    /\ request.tx \notin memory_pool
    /\ admissions[request.tx] = 0
    /\ handler_pc = "recv"

\* C8: UnconfirmedTransaction applied while Status is Peering is dropped: the
\* ledger is not queried, the pool is unchanged and nothing is propagated; with
\* any other Status, Mining included, the ledger is queried for it.
C8_DroppedWhilePeering ==
    [][\A p \in Peer, t \in Tx :
        Applied(UnconfirmedTransaction(p, t))
        => IF IsPeering(status)
           THEN /\ contains' = "none"
                /\ added' = "none"
                /\ memory_pool' = memory_pool
                /\ propagations' = propagations
                /\ handler_pc' = "recv"
           ELSE contains' \in ContainsResult]_vars
C8_Witness ==
    /\ request.kind = "UnconfirmedTransaction"
    /\ contains = "none"
    /\ IsPeering(status)
    /\ memory_pool = {}
    /\ handler_pc = "recv"

\* C9: once MemoryPoolClear(None) has been applied, and until the next request
\* is applied, the pool is empty, whatever it held before.
C9_ClearNoneEmpties ==
    request = MemoryPoolClear(FALSE, {}) => memory_pool = {}
C9_Witness ==
    /\ request = MemoryPoolClear(FALSE, {})
    /\ memory_pool = {}
    /\ \A t \in Tx : removals[t] = 1

\* C10: MemoryPoolClear(Some(block)) applied to a pool P leaves P minus the
\* block's transactions: those absent from P are ignored, those of P that are not
\* in the block are kept, and the size drops by the number of common ones.
C10_ClearSomeRemovesBlock ==
    [][\A b \in Blocks :
        Applied(MemoryPoolClear(TRUE, b))
        => /\ memory_pool' = memory_pool \ b
           /\ Cardinality(memory_pool')
                = Cardinality(memory_pool) - Cardinality(memory_pool \cap b)
           /\ handler_pc' = "recv"]_vars
C10_Witness ==
    /\ request = MemoryPoolClear(TRUE, {1})
    /\ memory_pool = {2}
    /\ removals = [t \in Tx |-> IF t = 1 THEN 1 ELSE 0]

\* The channel of a node that does not mine, with the requests of NodeRequest and
\* more of them than the channel holds: senders are suspended and resumed.
NextChannel ==
    \/ /\ Submit
       /\ \A i \in DOMAIN prover_handler' : prover_handler'[i] \in NodeRequest
       /\ \A i \in DOMAIN waiting' : waiting'[i] \in NodeRequest
    \/ SubmitResume
    \/ HandlerRecv
    \/ HandlerSend
    \/ StatusUpdate
    \/ PeersRecv
    \/ PeersClose
SpecChannel == InitHandler /\ [][NextChannel]_vars
\* The handler loop and the senders run on, and the peers router keeps receiving.
FairSpecChannel ==
    /\ SpecChannel
    /\ WF_vars(HandlerRecv) /\ WF_vars(HandlerSend)
    /\ WF_vars(SubmitResume) /\ WF_vars(PeersRecv)

\* C11: the handler loop applies one request at a time and in the order of their
\* arrival: it takes a request off the channel only when update() of the one
\* before is over, its propagation send and its write guard included; the request
\* it takes is the oldest; and requests are queued behind those already queued.
C11_OneAtATimeInOrder ==
    [][/\ Len(prover_handler') < Len(prover_handler)
            => /\ handler_pc = "recv" /\ ~write_guard
               /\ request' = Head(prover_handler)
               /\ prover_handler' = Tail(prover_handler)
       /\ Len(prover_handler') > Len(prover_handler)
            => /\ Len(prover_handler') = Len(prover_handler) + 1
               /\ SubSeq(prover_handler', 1, Len(prover_handler)) = prover_handler
       /\ Len(prover_handler') = Len(prover_handler)
            => prover_handler' = prover_handler]_vars
C11_Witness ==
    /\ handler_pc = "send"
    /\ write_guard
    /\ Len(prover_handler) = 2
    /\ prover_handler[1] # prover_handler[2]
    /\ dequeued = 1

\* C12: the channel never holds more requests than its capacity; a request
\* submitted while it is full waits with its sender and is queued once there is
\* room, so that every submitted request is queued, waiting or received; and with
\* the handler loop running on, every submitted request is received.
C12_BoundedNoDrop ==
    /\ [](/\ Len(prover_handler) <= Capacity
          /\ Capacity <= ChannelCapacity
          /\ submitted = dequeued + Len(prover_handler) + Len(waiting))
    /\ \A n \in 1..MaxRequests : (submitted >= n) ~> (dequeued >= n)
C12_Witness ==
    /\ Len(prover_handler) = Capacity
    /\ waiting # <<>>
    /\ dequeued = 0

\* C16: when peers_router.send fails after add_transaction succeeded, the
\* transaction stays in the pool, nothing else changes, and the handler loop is
\* back at its recv, ready for the next request.
C16_NoRollbackOnSendFailure ==
    [][(handler_pc = "send" /\ handler_pc' # "send" /\ sent' = "Err")
        => /\ request.tx \in memory_pool
           /\ memory_pool' = memory_pool
           /\ admissions' = admissions
           /\ prover_handler' = prover_handler
           /\ handler_pc' = "recv"
           /\ ~write_guard']_vars
C16_Witness ==
    /\ sent = "Err"
    /\ added = "Ok"
    /\ request.tx \in memory_pool
    /\ handler_pc = "recv"
    /\ prover_handler # <<>>
    /\ ENABLED HandlerRecv

\* C13: the task of a job calls ledger_router.send exactly once when the job has
\* settled with a block and never otherwise; what it queues is
\* UnconfirmedBlock(local_ip, block of the job, prover_router); a task that is over
\* does nothing more, and a job is started only by the miner loop at its snapshot.
C13_OneSubmissionPerBlock ==
    /\ [](\A j \in JobIds :
            /\ jobs[j].sends = IF jobs[j].pc = "done" /\ jobs[j].result = "Ok_block"
                               THEN 1 ELSE 0
            /\ jobs[j].pc = "send" => jobs[j].result = "Ok_block")
    /\ [][/\ Len(ledger_router') > Len(ledger_router) =>
                \E j \in JobIds :
                    /\ jobs[j].pc = "send" /\ jobs'[j].pc = "done"
                    /\ ledger_router' =
                         Append(ledger_router, UnconfirmedBlock(LocalIp, j, ProverRouter))
          /\ \A j \in JobIds : jobs[j].pc = "done" => jobs'[j] = jobs[j]
          /\ JobStarted => miner_pc = "snapshot"]_vars
C13_Witness ==
    /\ jobs[1].pc = "done" /\ jobs[1].result = "Ok_block" /\ jobs[1].sends = 1
    /\ jobs[2].pc = "done" /\ jobs[2].result \in {"Ok_err", "Err"} /\ jobs[2].sends = 0
    /\ ledger_router = <<UnconfirmedBlock(LocalIp, 1, ProverRouter)>>

\* C20: the task of a job that settled with a block gets to its ledger_router.send
\* only by the step that sets Status to Ready; that step is enabled whatever the
\* state of the ledger router's channel, and is taken also when the send then stays
\* blocked; the completion of the send, Ok or Err, does not touch Status.
C20_ReadyBeforeSend ==
    /\ [][\A j \in JobIds :
            /\ (jobs[j].pc # "send" /\ jobs'[j].pc = "send")
                  => (jobs[j].pc = "settled" /\ status' = "Ready")
            /\ (jobs[j].pc = "send" /\ jobs'[j].pc # "send")
                  => (jobs'[j].pc = "done" /\ status' = status)]_vars
    /\ [](\A j \in JobIds : jobs[j].pc = "settled" => ENABLED JobSetReady(j))
    /\ \A j \in JobIds :
          (jobs[j].pc = "settled" /\ jobs[j].result = "Ok_block") ~> (jobs[j].pc = "send")
C20_Witness ==
    \E j \in JobIds :
        /\ jobs[j].pc = "send"
        /\ ledger_open
        /\ Len(ledger_router) = RouterCapacity
        /\ ~ENABLED JobSend(j)
        /\ IsReady(status)

\* C18 (as claimed): the step of the miner loop that spawns the task of a job takes
\* the loop to its sleep, which elapses whether or not the job has settled; and an
\* iteration of the loop made while a job is in flight starts no job.
C18_TicksStartNoJobWhileInFlight ==
    /\ [][/\ JobStarted => miner_pc' = "sleep"
          /\ (\E j \in JobIds : InFlight(j)) => ~JobStarted]_vars
    /\ []((miner_pc = "sleep" /\ \E j \in JobIds : InFlight(j)) => ENABLED MinerSleep)

\* C15: an iteration of the miner loop that loads the terminator while it is false
\* goes on to is_ready(), whatever the terminator was before; when is_ready() sees
\* Ready the iteration sets Status to Mining, and it gets to its sleep only by
\* starting a job; and, once the gate has passed, the job is started.
C15_ReadyTickStartsJob ==
    /\ [][/\ (miner_pc = "load_terminator" /\ miner_pc' # miner_pc /\ ~terminator)
                => miner_pc' = "is_ready"
          /\ (miner_pc = "is_ready" /\ miner_pc' # miner_pc /\ IsReady(status))
                => miner_pc' = "update_mining"
          /\ (miner_pc = "update_mining" /\ miner_pc' # miner_pc)
                => (status' = "Mining" /\ miner_pc' = "snapshot")
          /\ (miner_pc = "snapshot" /\ miner_pc' # miner_pc)
                => (JobStarted /\ miner_pc' = "sleep")]_vars
    /\ (miner_pc = "update_mining") ~> (miner_pc = "sleep")
C15_Witness ==
    /\ miner_pc = "sleep"
    /\ seen_terminator = "false" /\ seen_status = "Ready"
    /\ status = "Mining"
    /\ \E j \in JobIds : InFlight(j) /\ jobs[j].txs # {}
    /\ dequeued > 0

\* C14: on a node that is not a miner, or is one without a recipient address, no
\* step moves the miner loop, starts a job or queues a block, and Status changes
\* only by a step that is not of this subsystem; and on every node, mining or not,
\* the handler loop receives whenever it is idle and a request is queued, and the
\* request it applies has the same effect on the pool.
C14_NoSchedulerWithoutMiner ==
    /\ [][~miner => /\ UNCHANGED miner_vars
                    /\ status' # status => UNCHANGED handler_vars]_vars
    /\ [](\A j \in JobIds : ~miner => jobs[j] = IdleJob)
    /\ []((handler_pc = "recv" /\ prover_handler # <<>>) => ENABLED HandlerRecv)
    /\ [][\A req \in ProverRequest : Applied(req) =>
            memory_pool' =
                IF req.kind = "MemoryPoolClear"
                THEN (IF req.some THEN memory_pool \ req.block ELSE {})
                ELSE IF ~IsPeering(status) /\ contains' = "Ok_false" /\ added' = "Ok"
                     THEN memory_pool \cup {req.tx}
                     ELSE memory_pool]_vars
C14_Witness ==
    /\ ~miner
    /\ IsReady(status) /\ ~terminator
    /\ miner_pc = "load_terminator"
    /\ dequeued >= 2
    /\ admissions[1] = 1 /\ removals[1] = 1

\* C17: the set of transactions given to a job at its snapshot stays what it was for
\* as long as the job exists, whatever the handler loop does to the pool meanwhile;
\* and while a job is mining the handler loop, when idle with a request queued, can
\* receive and apply it: the job holds no lock on the pool.
C17_JobMinesSnapshot ==
    /\ [][\A j \in JobIds :
            /\ jobs[j].pc # "idle" => jobs'[j].txs = jobs[j].txs
            /\ (jobs[j].pc = "idle" /\ jobs'[j].pc # "idle")
                  => jobs'[j].txs = Transactions(memory_pool)]_vars
    /\ []((/\ \E j \in JobIds : InFlight(j)
           /\ handler_pc = "recv"
           /\ prover_handler # <<>>) => ENABLED HandlerRecv)
C17_Witness ==
    \E j \in JobIds :
        /\ InFlight(j)
        /\ jobs[j].txs = {1}
        /\ 1 \notin memory_pool
        /\ removals[1] = 1

\* C19 (as claimed): the handler holds no write guard on the pool while it awaits
\* peers_router.send, and the miner loop, once it has set Status to Mining and is at
\* its snapshot, can take the read lock and start the job at once.
C19_WriteLockReleasedBeforeSend ==
    /\ handler_pc = "send" => ~write_guard
    /\ miner_pc = "snapshot" => ENABLED MinerSpawn

====
